---- MODULE Spec2Model ----
(***************************************************************************)
(* The donation ledger (BlockchainService) and the donation route that     *)
(* drives it.  Strings are sequences of UTF-16 code units, so that the     *)
(* rolling hash, the JSON serialisation and the number/date formatting are *)
(* computed the way the JavaScript source computes them.  Arrays are kept  *)
(* in a heap (arrs) and referred to by index, because the source shares    *)
(* array objects between the pending buffer, the blocks and the callers.   *)
(***************************************************************************)
EXTENDS Integers, Sequences, FiniteSets, TLC

\* ------------------------------------------------------------------ bounds
\* Transactions created over a run, blocks mined over a run, last clock value
\* (milliseconds since the epoch) and concurrent donation requests.
MaxTransactions == 2
MaxBlocks == 2
MaxClock == 1
NumRequests == 2

\* ------------------------------------------------------------------ strings
\* 'donorA'
DonorA == <<100, 111, 110, 111, 114, 65>>
\* 'charityB'
CharityB == <<99, 104, 97, 114, 105, 116, 121, 66>>
\* ''
EmptyString == <<>>
\* '{"fromAddress":'
KeyFromAddress == <<123, 34, 102, 114, 111, 109, 65, 100, 100, 114, 101, 115, 115, 34, 58>>
\* ',"toAddress":'
KeyToAddress == <<44, 34, 116, 111, 65, 100, 100, 114, 101, 115, 115, 34, 58>>
\* ',"amount":'
KeyAmount == <<44, 34, 97, 109, 111, 117, 110, 116, 34, 58>>
\* ',"message":'
KeyMessage == <<44, 34, 109, 101, 115, 115, 97, 103, 101, 34, 58>>
\* ',"timestamp":'
KeyTimestamp == <<44, 34, 116, 105, 109, 101, 115, 116, 97, 109, 112, 34, 58>>
\* ',"transactionId":'
KeyTransactionId == <<44, 34, 116, 114, 97, 110, 115, 97, 99, 116, 105, 111, 110, 73, 100, 34, 58>>
\* '1970-01-01T00:00:'
IsoDatePrefix == <<49, 57, 55, 48, 45, 48, 49, 45, 48, 49, 84, 48, 48, 58, 48, 48, 58>>

\* The inputs the operations are called with.
Identities == {DonorA, CharityB}
Donors == {DonorA}
Amounts == {0, 5}
Messages == {EmptyString}

\* The values a caller writes over a mined amount.
TamperAmounts == {7, 1389820309}

\* The values a caller writes over the first block's nonce and hash ('0').
TamperNonces == {1}
TamperHashes == {<<48>>}

\* The value undefined, kept apart from every string (no code unit is negative).
Undefined == <<-1>>

\* One decimal digit as its code unit.
DigitChar(d) == 48 + d

\* The decimal digits of a natural number, most significant first.
RECURSIVE NatDigits(_)
NatDigits(n) == IF n < 10 THEN <<DigitChar(n)>>
                ELSE Append(NatDigits(n \div 10), DigitChar(n % 10))

\* Number-to-string conversion of an integer-valued number (string + number).
NumberToString(n) == IF n < 0 THEN <<45>> \o NatDigits(0 - n) ELSE NatDigits(n)

\* The value of a string of decimal digits.
RECURSIVE DigitsValue(_, _, _)
DigitsValue(s, i, acc) ==
    IF i > Len(s) \/ s[i] < 48 \/ s[i] > 57 THEN acc
    ELSE DigitsValue(s, i + 1, acc * 10 + (s[i] - 48))

\* parseFloat of an integer-valued number: its string form, read back.
parseFloat(n) ==
    LET s == NumberToString(n)
    IN  IF Len(s) > 0 /\ s[1] = 45 THEN 0 - DigitsValue(s, 2, 0)
        ELSE DigitsValue(s, 1, 0)

\* n in decimal, left-padded with zeros to w digits.
RECURSIVE PadDigits(_, _)
PadDigits(n, w) == IF w = 0 THEN <<>>
                   ELSE Append(PadDigits(n \div 10, w - 1), DigitChar(n % 10))

\* Date.prototype.toISOString of a time value within the first minute of the epoch.
toISOString(ms) ==
    IsoDatePrefix \o PadDigits((ms \div 1000) % 60, 2) \o <<46>>
        \o PadDigits(ms % 1000, 3) \o <<90>>

\* The characters JSON.stringify escapes in a string: '"' and '\'.
NeedsEscape(c) == c = 34 \/ c = 92

RECURSIVE JsonEscape(_, _)
JsonEscape(s, i) ==
    IF i > Len(s) THEN <<>>
    ELSE (IF NeedsEscape(s[i]) THEN <<92, s[i]>> ELSE <<s[i]>>)
             \o JsonEscape(s, i + 1)

\* JSON.stringify of a string: quoted, with its special characters escaped.
JsonString(s) ==
    <<34>> \o (IF \E i \in 1..Len(s) : NeedsEscape(s[i])
               THEN JsonEscape(s, 1) ELSE s) \o <<34>>

\* JSON.stringify of one transaction object, keys in insertion order.
JsonTransaction(tx) ==
    KeyFromAddress \o JsonString(tx.fromAddress)
        \o KeyToAddress \o JsonString(tx.toAddress)
        \o KeyAmount \o NumberToString(tx.amount)
        \o KeyMessage \o JsonString(tx.message)
        \o KeyTimestamp \o JsonString(tx.timestamp)
        \o KeyTransactionId \o JsonString(tx.transactionId)
        \o <<125>>

RECURSIVE JsonElements(_, _)
JsonElements(txs, i) ==
    IF i > Len(txs) THEN <<>>
    ELSE (IF i > 1 THEN <<44>> ELSE <<>>) \o JsonTransaction(txs[i])
             \o JsonElements(txs, i + 1)

\* JSON.stringify of an array of transactions.
JsonStringify(txs) == <<91>> \o JsonElements(txs, 1) \o <<93>>

\* ------------------------------------------------------------------ hashing
\* A 32-bit integer is kept as <<high 16 bits, low 16 bits>>.
\* hash = ((hash << 5) - hash) + char; hash = hash & hash
HashStep(hash, char) ==
    LET lo == hash[2] * 31 + char
        hi == hash[1] * 31 + (lo \div 65536)
    IN  <<hi % 65536, lo % 65536>>

\* for (let i = 0; i < data.length; i++): the steps over data[lo..hi], in order.
\* A long range is halved and the left half is computed before the right half
\* starts (the test on left[1] makes the evaluator compute it there), so that
\* the evaluation stays shallow on long strings.
RECURSIVE HashLoop(_, _, _, _)
HashLoop(data, lo, hi, hash) ==
    IF lo > hi THEN hash
    ELSE IF hi - lo < 8 THEN HashLoop(data, lo + 1, hi, HashStep(hash, data[lo]))
    ELSE LET mid == (lo + hi) \div 2
             left == HashLoop(data, lo, mid, hash)
         IN  IF left[1] >= 0 THEN HashLoop(data, mid + 1, hi, left) ELSE left

\* Math.abs of the signed 32-bit value (the absolute value of -2^31 is 2^31).
MathAbs(hash) ==
    IF hash[1] < 32768 THEN hash
    ELSE LET lo == (65536 - hash[2]) % 65536
             hi == (65535 - hash[1] + (IF hash[2] = 0 THEN 1 ELSE 0)) % 65536
         IN  <<hi, lo>>

HexChar(d) == IF d < 10 THEN 48 + d ELSE 87 + d

RECURSIVE StripLeadingZeros(_)
StripLeadingZeros(ds) ==
    IF Len(ds) > 1 /\ ds[1] = 0 THEN StripLeadingZeros(Tail(ds)) ELSE ds

\* Number.prototype.toString(16) of a value below 2^32.
ToHexString(hash) ==
    LET nibbles == << hash[1] \div 4096, (hash[1] \div 256) % 16,
                      (hash[1] \div 16) % 16, hash[1] % 16,
                      hash[2] \div 4096, (hash[2] \div 256) % 16,
                      (hash[2] \div 16) % 16, hash[2] % 16 >>
        ds == StripLeadingZeros(nibbles)
    IN  [k \in 1..Len(ds) |-> HexChar(ds[k])]

\* The service's hash function.
sha256(data) == ToHexString(MathAbs(HashLoop(data, 1, Len(data), <<0, 0>>)))

calculateHash(index, previousHash, transactions, timestamp, nonce) ==
    sha256(NumberToString(index) \o previousHash \o JsonStringify(transactions)
               \o timestamp \o NumberToString(nonce))

generateTransactionId(from, to, amount, now) ==
    sha256(from \o to \o NumberToString(amount) \o NumberToString(now))

\* ------------------------------------------------------------------ state
VARIABLES
    chain,                \* this.chain: the sequence of blocks
    pendingTransactions,  \* this.pendingTransactions: a reference into arrs
    arrs,                 \* the heap of transaction arrays
    clock,                \* the time new Date() reads
    nextOid,              \* identity of the next transaction object
    mines,                \* completed minePendingTransactions calls
    last,                 \* the last writing call: name, arguments, result
    held,                 \* the references a caller of getBlockchain keeps
    reqs,                 \* the donation requests in flight
    donations             \* the donation store

ledgerVars == <<chain, pendingTransactions, arrs, clock, nextOid, mines, last>>
vars == <<chain, pendingTransactions, arrs, clock, nextOid, mines, last, held,
          reqs, donations>>

Requests == 1..NumRequests

\* A request that has not arrived yet.
IdleRequest ==
    [pc |-> "idle", blockchainTx |-> Undefined, donation |-> Undefined,
     block |-> Undefined, status |-> 0]

\* The transactions array a block refers to, as it is now.
Transactions(block) == arrs[block.transactions]

Pending == arrs[pendingTransactions]

\* The times a second new Date() of the same call can read.
LaterReads(t) == {u \in {t, t + 1} : u <= MaxClock}

getLatestBlock == chain[Len(chain)]

\* A first block numbered 1 instead of 0.
createGenesisBlockFromOne(t0, t1) ==
    [index |-> 1,
     timestamp |-> toISOString(t0),
     transactions |-> 2,
     previousHash |-> <<48>>,
     hash |-> calculateHash(1, <<48>>, <<>>, toISOString(t1), 0),
     nonce |-> 0]

\* The genesis block: its timestamp and its hash come from two clock reads.
createGenesisBlock(t0, t1) ==
    [index |-> 0,
     timestamp |-> toISOString(t0),
     transactions |-> 2,
     previousHash |-> <<48>>,
     hash |-> calculateHash(0, <<48>>, <<>>, toISOString(t1), 0),
     nonce |-> 0]

\* constructor: chain and pending arrays, then the genesis block, synchronously.
Init ==
    \E t1 \in LaterReads(0) :
        /\ arrs = << <<>>, <<>> >>
        /\ pendingTransactions = 1
        /\ chain = << createGenesisBlock(0, t1) >>
        /\ clock = t1
        /\ nextOid = 1
        /\ mines = 0
        /\ last = [op |-> "constructor", args |-> <<>>, result |-> <<>>, error |-> "none"]
        /\ held = [taken |-> FALSE, pendingTransactions |-> 0, written |-> FALSE]
        /\ reqs = [r \in Requests |-> IdleRequest]
        /\ donations = <<>>

\* The block createNewBlock builds, linked to previousBlock.
NewBlock(previousBlock, transactions, now) ==
    LET newIndex == previousBlock.index + 1
        timestamp == toISOString(now)
        previousHash == previousBlock.hash
    IN  [index |-> newIndex,
         timestamp |-> timestamp,
         transactions |-> transactions,
         previousHash |-> previousHash,
         hash |-> calculateHash(newIndex, previousHash, arrs[transactions],
                                timestamp, 0),
         nonce |-> 0]

\* A block built on the first block of the chain instead of the latest.
createNewBlockFromGenesis(transactions, now) ==
    NewBlock(chain[1], transactions, now)

\* A block that repeats the index of the latest block.
createNewBlockSameIndex(transactions, now) ==
    LET previousBlock == getLatestBlock
        timestamp == toISOString(now)
    IN  [NewBlock(previousBlock, transactions, now) EXCEPT
             !.index = previousBlock.index,
             !.hash = calculateHash(previousBlock.index, previousBlock.hash,
                                    arrs[transactions], timestamp, 0)]

createNewBlock(transactions, now) ==
    NewBlock(getLatestBlock, transactions, now)

\* The transaction object addDonationTransaction builds.
NewTransaction(donorId, charityId, amount, message, t1, t2) ==
    [fromAddress |-> donorId,
     toAddress |-> charityId,
     amount |-> amount,
     message |-> message,
     timestamp |-> toISOString(t1),
     transactionId |-> generateTransactionId(donorId, charityId, amount, t2),
     oid |-> nextOid]

addDonationTransaction(donorId, charityId, amount, message) ==
    /\ nextOid <= MaxTransactions
    /\ \E t2 \in LaterReads(clock) :
        LET transaction ==
                NewTransaction(donorId, charityId, amount, message, clock, t2)
        IN  /\ arrs' = [arrs EXCEPT ![pendingTransactions] = Append(@, transaction)]
            /\ clock' = t2
            /\ nextOid' = nextOid + 1
            /\ last' = [op |-> "addDonationTransaction",
                        args |-> <<donorId, charityId, amount, message>>,
                        result |-> transaction, error |-> "none"]
    /\ UNCHANGED <<chain, pendingTransactions, mines>>

\* The new block joins the chain and a fresh array becomes the pending buffer.
MineInto(block, heap, pending) ==
    /\ mines < MaxBlocks
    /\ chain' = Append(chain, block)
    /\ arrs' = heap
    /\ pendingTransactions' = pending
    /\ last' = [op |-> "minePendingTransactions", args |-> <<>>,
                result |-> block, error |-> "none"]
    /\ mines' = mines + 1
    /\ UNCHANGED <<clock, nextOid>>

\* Mining that empties the pending array in place (pendingTransactions.length = 0).
minePendingTransactionsInPlace ==
    MineInto(createNewBlock(pendingTransactions, clock),
             [arrs EXCEPT ![pendingTransactions] = <<>>], pendingTransactions)

\* Mining that forgets to reset the pending buffer.
minePendingTransactionsNoReset ==
    MineInto(createNewBlock(pendingTransactions, clock), arrs, pendingTransactions)

\* The call throws before it has written anything.
MineThrows(error) ==
    /\ last' = [op |-> "minePendingTransactions", args |-> <<>>,
                result |-> Undefined, error |-> error]
    /\ UNCHANGED <<chain, pendingTransactions, arrs, clock, nextOid, mines>>

\* Mining that refuses an empty pending buffer.
minePendingTransactionsNonEmpty ==
    IF Pending = <<>> THEN MineThrows("NothingToMine")
    ELSE MineInto(createNewBlock(pendingTransactions, clock),
                  Append(arrs, <<>>), Len(arrs) + 1)

\* previousBlock.index throws a TypeError when getLatestBlock() is undefined,
\* that is when the chain is empty; nothing else in the call can fail.
minePendingTransactions ==
    IF chain = <<>> THEN MineThrows("TypeError")
    ELSE MineInto(createNewBlock(pendingTransactions, clock),
                  Append(arrs, <<>>), Len(arrs) + 1)

\* The loop of isChainValid from position i (0-based i - 1) on.
RECURSIVE ValidFrom(_)
ValidFrom(i) ==
    IF i > Len(chain) THEN TRUE
    ELSE LET currentBlock == chain[i]
             previousBlock == chain[i - 1]
         IN  IF currentBlock.hash # calculateHash(currentBlock.index,
                                                 currentBlock.previousHash,
                                                 Transactions(currentBlock),
                                                 currentBlock.timestamp,
                                                 currentBlock.nonce)
             THEN FALSE
             ELSE IF currentBlock.previousHash # previousBlock.hash THEN FALSE
             ELSE ValidFrom(i + 1)

\* A check that also re-hashes the first block.
ChainValidWithGenesis ==
    /\ chain[1].hash = calculateHash(chain[1].index, chain[1].previousHash,
                                     Transactions(chain[1]), chain[1].timestamp,
                                     chain[1].nonce)
    /\ ValidFrom(2)

\* The value isChainValid() returns in the current state.
ChainValid == ValidFrom(2)

\* The call: it returns ChainValid and writes nothing.
isChainValid == UNCHANGED ledgerVars

\* The inner loop with the second test chained by else.
RECURSIVE BalanceOverTransactionsElseIf(_, _, _, _)
BalanceOverTransactionsElseIf(txs, address, j, balance) ==
    IF j > Len(txs) THEN balance
    ELSE LET transaction == txs[j]
             after == IF transaction.fromAddress = address
                      THEN balance - parseFloat(transaction.amount)
                      ELSE IF transaction.toAddress = address
                      THEN balance + parseFloat(transaction.amount)
                      ELSE balance
         IN  BalanceOverTransactionsElseIf(txs, address, j + 1, after)

\* The inner loop of getBalanceOfAddress over one block's transactions.
RECURSIVE BalanceOverTransactions(_, _, _, _)
BalanceOverTransactions(txs, address, j, balance) ==
    IF j > Len(txs) THEN balance
    ELSE LET transaction == txs[j]
             afterFrom == IF transaction.fromAddress = address
                          THEN balance - parseFloat(transaction.amount)
                          ELSE balance
             afterTo == IF transaction.toAddress = address
                        THEN afterFrom + parseFloat(transaction.amount)
                        ELSE afterFrom
         IN  BalanceOverTransactions(txs, address, j + 1, afterTo)

RECURSIVE BalanceOverBlocks(_, _, _)
BalanceOverBlocks(address, i, balance) ==
    IF i > Len(chain) THEN balance
    ELSE BalanceOverBlocks(address, i + 1,
             BalanceOverTransactions(Transactions(chain[i]), address, 1, balance))

\* A balance that also counts the transactions still pending.
BalanceOfWithPending(address) ==
    BalanceOverTransactions(Pending, address, 1, BalanceOverBlocks(address, 1, 0))

\* The value getBalanceOfAddress(address) returns in the current state.
BalanceOf(address) == BalanceOverBlocks(address, 1, 0)

\* The call: it returns BalanceOf(address) and writes nothing.
getBalanceOfAddress(address) == UNCHANGED ledgerVars

\* The scan with one test per side: a transaction from the address to itself
\* is pushed twice.
RECURSIVE MatchingTransactionsPerSide(_, _, _)
MatchingTransactionsPerSide(txs, address, j) ==
    IF j > Len(txs) THEN <<>>
    ELSE (IF txs[j].fromAddress = address THEN <<txs[j]>> ELSE <<>>)
             \o (IF txs[j].toAddress = address THEN <<txs[j]>> ELSE <<>>)
             \o MatchingTransactionsPerSide(txs, address, j + 1)

\* The transactions of one array that name the address, in order.
RECURSIVE MatchingTransactions(_, _, _)
MatchingTransactions(txs, address, j) ==
    IF j > Len(txs) THEN <<>>
    ELSE (IF txs[j].fromAddress = address \/ txs[j].toAddress = address
          THEN <<txs[j]>> ELSE <<>>)
             \o MatchingTransactions(txs, address, j + 1)

RECURSIVE TransactionsOverBlocks(_, _)
TransactionsOverBlocks(address, i) ==
    IF i > Len(chain) THEN <<>>
    ELSE MatchingTransactions(Transactions(chain[i]), address, 1)
             \o TransactionsOverBlocks(address, i + 1)

\* The value getTransactionsForAddress(address) returns in the current state.
TransactionsFor(address) == TransactionsOverBlocks(address, 1)

\* The call: it returns TransactionsFor(address) and writes nothing.
getTransactionsForAddress(address) == UNCHANGED ledgerVars

\* The value getBlockchain() returns: the chain array and the pending array
\* themselves, not copies.
Blockchain ==
    [chain |-> "this.chain", pendingTransactions |-> pendingTransactions]

\* A getBlockchain that hands the pending array over and starts a fresh one.
getBlockchainDraining ==
    /\ arrs' = Append(arrs, <<>>)
    /\ pendingTransactions' = Len(arrs) + 1
    /\ UNCHANGED <<chain, clock, nextOid, mines, last>>

\* The call: it returns Blockchain and writes nothing.
getBlockchain == UNCHANGED ledgerVars

\* The clock advances between calls.
Tick ==
    /\ clock < MaxClock
    /\ clock' = clock + 1
    /\ UNCHANGED <<chain, pendingTransactions, arrs, nextOid, mines, last>>

\* ------------------------------------------------------------------ callers
\* A caller keeps what getBlockchain returned.
CallGetBlockchain ==
    /\ getBlockchain
    /\ held' = [held EXCEPT !.taken = TRUE,
                            !.pendingTransactions = Blockchain.pendingTransactions]
    /\ UNCHANGED <<reqs, donations>>

\* result.chain[i - 1].transactions[j - 1].amount = v, on the returned chain.
CallerSetAmount(i, j, v) ==
    /\ held.taken /\ ~held.written
    /\ i \in 2..Len(chain)
    /\ j \in 1..Len(Transactions(chain[i]))
    /\ v # Transactions(chain[i])[j].amount
    /\ arrs' = [arrs EXCEPT ![chain[i].transactions][j].amount = v]
    /\ held' = [held EXCEPT !.written = TRUE]
    /\ last' = [op |-> "callerSetAmount", args |-> <<i, j, v>>, result |-> <<>>,
                error |-> "none"]
    /\ UNCHANGED <<chain, pendingTransactions, clock, nextOid, mines, reqs,
                   donations>>

\* result.pendingTransactions.pop(), on the returned pending array.
CallerPopPending ==
    /\ held.taken /\ ~held.written
    /\ Len(arrs[held.pendingTransactions]) > 0
    /\ arrs' = [arrs EXCEPT ![held.pendingTransactions] = SubSeq(@, 1, Len(@) - 1)]
    /\ held' = [held EXCEPT !.written = TRUE]
    /\ last' = [op |-> "callerPopPending", args |-> <<>>, result |-> <<>>,
                error |-> "none"]
    /\ UNCHANGED <<chain, pendingTransactions, clock, nextOid, mines, reqs,
                   donations>>

\* result.chain[0].nonce = v, on the returned chain.
CallerSetGenesisNonce(v) ==
    /\ held.taken /\ ~held.written
    /\ v # chain[1].nonce
    /\ chain' = [chain EXCEPT ![1].nonce = v]
    /\ held' = [held EXCEPT !.written = TRUE]
    /\ last' = [op |-> "callerSetGenesisNonce", args |-> <<v>>, result |-> <<>>,
                error |-> "none"]
    /\ UNCHANGED <<pendingTransactions, arrs, clock, nextOid, mines, reqs,
                   donations>>

\* result.chain[0].hash = v, on the returned chain.
CallerSetGenesisHash(v) ==
    /\ held.taken /\ ~held.written
    /\ v # chain[1].hash
    /\ chain' = [chain EXCEPT ![1].hash = v]
    /\ held' = [held EXCEPT !.written = TRUE]
    /\ last' = [op |-> "callerSetGenesisHash", args |-> <<v>>, result |-> <<>>,
                error |-> "none"]
    /\ UNCHANGED <<pendingTransactions, arrs, clock, nextOid, mines, reqs,
                   donations>>

\* ------------------------------------------------------------------ route
\* User.findById(id).role, for the users of the store ("none": no such user).
Role(id) == IF id = DonorA THEN "donor"
            ELSE IF id = CharityB THEN "charity" ELSE "none"

\* blockchainTx.hash: the transaction object has no such property.
HashOf(blockchainTx) ==
    IF "hash" \in DOMAIN blockchainTx THEN blockchainTx.hash ELSE Undefined

\* new Donation({...}) as the route fills it.
NewDonation(donorId, charityId, amount, message, blockchainTx) ==
    [donor |-> donorId,
     charity |-> charityId,
     amount |-> amount,
     message |-> message,
     transactionId |-> blockchainTx.transactionId,
     blockchainTxHash |-> HashOf(blockchainTx)]

\* A required String path: present and not empty.
RequiredString(v) == v # Undefined /\ v # <<>>

\* DonationSchema's validation of a document, and the unique transactionId index
\* (min: 0.01 on an integer-valued amount is amount >= 1).
SaveAccepts(doc) ==
    /\ doc.amount >= 1
    /\ RequiredString(doc.transactionId)
    /\ RequiredString(doc.blockchainTxHash)
    /\ \A k \in 1..Len(donations) : donations[k].transactionId # doc.transactionId

\* POST /: the role checks, then addDonationTransaction.
RoutePost(r, userId, charityId, amount, message) ==
    /\ reqs[r].pc = "idle"
    /\ IF Role(userId) # "donor"
       THEN /\ reqs' = [reqs EXCEPT ![r] = [@ EXCEPT !.pc = "done", !.status = 403]]
            /\ UNCHANGED ledgerVars
       ELSE IF Role(charityId) # "charity"
       THEN /\ reqs' = [reqs EXCEPT ![r] = [@ EXCEPT !.pc = "done", !.status = 404]]
            /\ UNCHANGED ledgerVars
       ELSE /\ addDonationTransaction(userId, charityId, amount, message)
            /\ reqs' = [reqs EXCEPT ![r] =
                           [@ EXCEPT !.pc = "awaitAdd",
                                     !.blockchainTx = last'.result,
                                     !.donation = [donor |-> userId,
                                                   charity |-> charityId,
                                                   amount |-> amount,
                                                   message |-> message]]]
    /\ UNCHANGED <<held, donations>>

\* After await addDonationTransaction: the document is built and save() starts.
RouteSave(r) ==
    /\ reqs[r].pc = "awaitAdd"
    /\ reqs' = [reqs EXCEPT ![r] =
                   [@ EXCEPT !.pc = "awaitSave",
                             !.donation = NewDonation(@.donor, @.charity, @.amount,
                                                      @.message, reqs[r].blockchainTx)]]
    /\ UNCHANGED <<ledgerVars, held, donations>>

\* After await donation.save(): mine and answer 201, or the catch branch.
RouteSaved(r) ==
    /\ reqs[r].pc = "awaitSave"
    /\ IF SaveAccepts(reqs[r].donation)
       THEN /\ donations' = Append(donations, reqs[r].donation)
            /\ minePendingTransactions
            /\ reqs' = [reqs EXCEPT ![r] =
                           [@ EXCEPT !.pc = "done",
                                     !.block = last'.result,
                                     !.status = IF last'.error = "none"
                                                THEN 201 ELSE 500]]
       ELSE /\ reqs' = [reqs EXCEPT ![r] = [@ EXCEPT !.pc = "done", !.status = 500]]
            /\ UNCHANGED <<ledgerVars, donations>>
    /\ UNCHANGED held

\* ------------------------------------------------------------------ next
\* The service called directly, one call at a time.
Next ==
    \/ \E d \in Donors, c \in Identities, a \in Amounts, m \in Messages :
           addDonationTransaction(d, c, a, m) /\ UNCHANGED <<held, reqs, donations>>
    \/ minePendingTransactions /\ UNCHANGED <<held, reqs, donations>>
    \/ isChainValid /\ UNCHANGED <<held, reqs, donations>>
    \/ \E x \in Identities :
           getBalanceOfAddress(x) /\ UNCHANGED <<held, reqs, donations>>
    \/ \E x \in Identities :
           getTransactionsForAddress(x) /\ UNCHANGED <<held, reqs, donations>>
    \/ getBlockchain /\ UNCHANGED <<held, reqs, donations>>
    \/ Tick /\ UNCHANGED <<held, reqs, donations>>

Spec == Init /\ [][Next]_vars

\* The service with a caller that keeps and writes to what getBlockchain returned.
NextCaller ==
    \/ \E a \in Amounts :
           addDonationTransaction(DonorA, CharityB, a, EmptyString)
               /\ UNCHANGED <<held, reqs, donations>>
    \/ minePendingTransactions /\ UNCHANGED <<held, reqs, donations>>
    \/ isChainValid /\ UNCHANGED <<held, reqs, donations>>
    \/ CallGetBlockchain
    \/ \E i \in 2..Len(chain), j \in 1..MaxTransactions, v \in TamperAmounts :
           CallerSetAmount(i, j, v)
    \/ CallerPopPending

SpecCaller == Init /\ [][NextCaller]_vars

\* The service with a caller that overwrites fields of the blocks it got from
\* getBlockchain, the first block's included.
NextTamper ==
    \/ addDonationTransaction(DonorA, CharityB, 5, EmptyString)
           /\ UNCHANGED <<held, reqs, donations>>
    \/ minePendingTransactions /\ UNCHANGED <<held, reqs, donations>>
    \/ CallGetBlockchain
    \/ \E i \in 2..Len(chain), j \in 1..MaxTransactions, v \in TamperAmounts :
           CallerSetAmount(i, j, v)
    \/ \E v \in TamperNonces : CallerSetGenesisNonce(v)
    \/ \E v \in TamperHashes : CallerSetGenesisHash(v)

SpecTamper == Init /\ [][NextTamper]_vars

\* Concurrent donation requests; a request yields at each await.
NextRoute ==
    \/ \E r \in Requests, u \in Identities, c \in Identities, a \in Amounts,
          m \in Messages : RoutePost(r, u, c, a, m)
    \/ \E r \in Requests : RouteSave(r)
    \/ \E r \in Requests : RouteSaved(r)
    \/ Tick /\ UNCHANGED <<held, reqs, donations>>

SpecRoute == Init /\ [][NextRoute]_vars

\* ------------------------------------------------------------------ claims
\* The chain as a reader sees it: every block with its transactions read out.
ChainView ==
    [i \in 1..Len(chain) |->
        [index |-> chain[i].index,
         timestamp |-> chain[i].timestamp,
         transactions |-> Transactions(chain[i]),
         previousHash |-> chain[i].previousHash,
         hash |-> chain[i].hash,
         nonce |-> chain[i].nonce]]

\* The mined transactions, in chain order then in-block order.
RECURSIVE MinedFrom(_)
MinedFrom(i) ==
    IF i > Len(chain) THEN <<>> ELSE Transactions(chain[i]) \o MinedFrom(i + 1)

Mined == MinedFrom(1)

RECURSIVE SumAmounts(_)
SumAmounts(txs) ==
    IF txs = <<>> THEN 0 ELSE Head(txs).amount + SumAmounts(Tail(txs))

SentTo(x, tx) == tx.toAddress = x
SentFrom(x, tx) == tx.fromAddress = x
SumTo(x) == SumAmounts(SelectSeq(Mined, LAMBDA tx : SentTo(x, tx)))
SumFrom(x) == SumAmounts(SelectSeq(Mined, LAMBDA tx : SentFrom(x, tx)))

\* The places of an array where the transaction object oid sits.
Places(txs, oid) == {j \in 1..Len(txs) : txs[j].oid = oid}

\* How many times the object sits in the pending buffer and in the blocks.
RECURSIVE CountInBlocks(_, _)
CountInBlocks(oid, i) ==
    IF i > Len(chain) THEN 0
    ELSE Cardinality(Places(Transactions(chain[i]), oid)) + CountInBlocks(oid, i + 1)

CountInPending(oid) == Cardinality(Places(Pending, oid))

\* C1: right after every minePendingTransactions, isChainValid() is true.
C1_ValidAfterMine ==
    last.op = "minePendingTransactions" => ChainValid

C1_Witness ==
    /\ last.op = "minePendingTransactions"
    /\ Len(chain) = 3
    /\ Len(Transactions(chain[2])) >= 1
    /\ Len(Transactions(chain[3])) >= 1
    /\ ChainValid

\* C2: once a caller has replaced the amount of a mined transaction by a
\* different value, leaving the stored hashes alone, isChainValid() is false.
C2_TamperDetected ==
    last.op = "callerSetAmount" => ~ChainValid

\* C3: a mine step appends exactly one block, the one it returns, with index
\* last.index + 1, previousHash last.hash and the pending transactions in
\* order, and leaves pending empty.
C3_MineAppendsPending ==
    [][mines' # mines =>
          LET B == last'.result
              latest == chain[Len(chain)]
          IN  /\ last'.op = "minePendingTransactions"
              /\ chain' = Append(chain, B)
              /\ chain'[Len(chain')] = B
              /\ B.index = latest.index + 1
              /\ B.previousHash = latest.hash
              /\ arrs'[B.transactions] = arrs[pendingTransactions]
              /\ arrs'[pendingTransactions'] = <<>>]_vars

C3_Witness ==
    /\ last.op = "minePendingTransactions"
    /\ Len(Transactions(last.result)) = 2
    /\ last.result = chain[Len(chain)]
    /\ Pending = <<>>

\* C4: every step keeps the blocks already in the chain, their transactions
\* included; only a mine lengthens the chain, by one block; after k mines the
\* chain has 1 + k blocks.
C4_AppendOnly ==
    /\ [][/\ \A i \in 1..Len(chain) :
                /\ i <= Len(chain')
                /\ chain'[i] = chain[i]
                /\ arrs'[chain[i].transactions] = arrs[chain[i].transactions]
          /\ Len(chain') # Len(chain) =>
                /\ last'.op = "minePendingTransactions"
                /\ Len(chain') = Len(chain) + 1]_vars
    /\ [](Len(chain) = 1 + mines)

C4_Witness ==
    /\ last.op = "addDonationTransaction"
    /\ mines = 2
    /\ Len(chain) = 3
    /\ Len(Transactions(chain[3])) >= 1

\* C5: a donation request that went through addDonationTransaction and has
\* completed answered 201 with a block that holds exactly its own transaction.
C5_OneBlockPerDonation ==
    \A r \in Requests :
        (reqs[r].pc = "done" /\ reqs[r].status \notin {403, 404}) =>
            /\ reqs[r].status = 201
            /\ \E i \in 1..Len(chain) :
                  /\ chain[i].index = reqs[r].block.index
                  /\ chain[i].hash = reqs[r].block.hash
                  /\ Len(Transactions(chain[i])) = 1
                  /\ Transactions(chain[i])[1].oid = reqs[r].blockchainTx.oid

\* C6: every transaction object addDonationTransaction returned sits exactly
\* once in the pending buffer or exactly once in exactly one block.
C6_NoLossNoDuplicate ==
    \A oid \in 1..(nextOid - 1) :
        CountInPending(oid) + CountInBlocks(oid, 1) = 1

C6_Witness ==
    /\ nextOid = 3
    /\ CountInPending(2) = 1
    /\ CountInBlocks(1, 1) = 1
    /\ mines >= 1

\* C7: addDonationTransaction with amount <= 0 fails with InvalidAmount and
\* leaves pending and chain as they were.
C7_InvalidAmountRejected ==
    [][(last' # last /\ last'.op = "addDonationTransaction" /\ last'.args[3] <= 0) =>
          /\ last'.error = "InvalidAmount"
          /\ UNCHANGED <<chain, pendingTransactions, arrs>>]_vars

\* C8: for every identity X, getBalanceOfAddress(X) is the sum of the mined
\* amounts sent to X minus the sum of the mined amounts sent from X.
C8_BalanceIsNetFlow ==
    \A x \in Identities : BalanceOf(x) = SumTo(x) - SumFrom(x)

C8_Witness ==
    /\ BalanceOf(DonorA) = 0
    /\ BalanceOf(CharityB) = 0
    /\ \E k \in 1..Len(Mined) :
           Mined[k].fromAddress = DonorA /\ Mined[k].toAddress = DonorA
               /\ Mined[k].amount > 0
    /\ \E k \in 1..Len(Pending) :
           Pending[k].fromAddress = DonorA /\ Pending[k].toAddress = CharityB
               /\ Pending[k].amount > 0

\* C9: a write a caller makes through what getBlockchain returned changes
\* neither the ledger's chain nor its pending buffer.
C9_SnapshotIsolated ==
    [][(held'.written /\ ~held.written) =>
          (ChainView' = ChainView /\ Pending' = Pending)]_vars

\* C10: every block's hash is the hash of its own fields, and every block after
\* the first continues the index and carries the hash of the block before it.
C10_BlockInvariant ==
    \A i \in 1..Len(chain) :
        /\ chain[i].hash = calculateHash(chain[i].index, chain[i].previousHash,
                                         Transactions(chain[i]),
                                         chain[i].timestamp, chain[i].nonce)
        /\ i > 1 => /\ chain[i].index = chain[i - 1].index + 1
                    /\ chain[i].previousHash = chain[i - 1].hash

\* Every transaction the ledger holds: the mined ones, then the pending ones.
AllTransactions == Mined \o Pending

\* C11: any two distinct transaction objects addDonationTransaction created
\* carry different transactionId values.
C11_UniqueTransactionIds ==
    \A i, j \in 1..Len(AllTransactions) :
        AllTransactions[i].oid # AllTransactions[j].oid =>
            AllTransactions[i].transactionId # AllTransactions[j].transactionId

\* C12: as long as nothing has been called since the constructor returned,
\* the chain is the genesis block alone (index 0, previousHash "0", no
\* transactions) and the pending buffer is empty.
C12_FreshLedger ==
    last.op = "constructor" =>
        /\ Len(chain) = 1
        /\ chain[1].index = 0
        /\ chain[1].previousHash = <<48>>
        /\ Transactions(chain[1]) = <<>>
        /\ Pending = <<>>

C12_Witness ==
    /\ last.op = "constructor"
    /\ Len(chain) = 1
    /\ chain[1].timestamp = toISOString(0)
    /\ mines = 0
    /\ nextOid = 1

\* C13: the chain is never empty, so minePendingTransactions finds a latest
\* block in every reachable state; every call returns a block without an
\* error and lengthens the chain by that block, and on an empty pending buffer
\* the block it appends has no transactions.
C13_MineAlwaysSucceeds ==
    /\ [](chain # <<>>)
    /\ [][(last' # last /\ last'.op = "minePendingTransactions") =>
              /\ last'.error = "none"
              /\ mines' = mines + 1
              /\ Len(chain') = Len(chain) + 1
              /\ chain'[Len(chain')] = last'.result
              /\ (Pending = <<>> => arrs'[last'.result.transactions] = <<>>)]_vars

C13_Witness ==
    /\ last.op = "minePendingTransactions"
    /\ last.error = "none"
    /\ mines = 2
    /\ Len(chain) = 3
    /\ Transactions(chain[2]) = <<>>
    /\ Transactions(chain[3]) = <<>>
    /\ nextOid = 1

\* What a reader finds behind the value getBlockchain returns.
Snapshot == [chain |-> ChainView, pendingTransactions |-> Pending]

\* C14: a step that is neither addDonationTransaction nor
\* minePendingTransactions (a read, or time passing) leaves the chain and the
\* pending buffer as they were, so two getBlockchain calls with only such
\* steps between them return equal snapshots.
C14_ReadsChangeNothing ==
    [][last' = last =>
          /\ Snapshot' = Snapshot
          /\ chain' = chain
          /\ pendingTransactions' = pendingTransactions]_vars

C14_Witness ==
    /\ last.op = "addDonationTransaction"
    /\ Len(Snapshot.chain) = 2
    /\ Len(Snapshot.chain[2].transactions) = 1
    /\ Len(Snapshot.pendingTransactions) = 1
    /\ clock = 1

\* A donation request is between its first step and its answer.
InFlight(r) == reqs[r].pc \notin {"idle", "done"}

\* C15: whenever no donation request is in flight, the pending buffer is
\* empty: what a request added has been mined by the time it answers.
C15_PendingEmptyAtRest ==
    (\A r \in Requests : ~InFlight(r)) => Pending = <<>>

\* The request passed both role checks and has answered.
AnsweredDonation(r) ==
    reqs[r].pc = "done" /\ reqs[r].status \notin {403, 404}

\* C16: a request of a donor to a charity with an amount the store accepts has
\* answered 201, its donation record is in the store with the transaction's id
\* and a defined, non-empty blockchainTxHash, and the block it reports is in
\* the chain.
C16_ValidDonationAnswers201 ==
    \A r \in Requests :
        (AnsweredDonation(r) /\ reqs[r].donation.amount >= 1) =>
            /\ reqs[r].status = 201
            /\ \E k \in 1..Len(donations) :
                  /\ donations[k].transactionId = reqs[r].blockchainTx.transactionId
                  /\ RequiredString(donations[k].blockchainTxHash)
            /\ \E i \in 1..Len(chain) :
                  /\ chain[i].index = reqs[r].block.index
                  /\ chain[i].hash = reqs[r].block.hash

\* C17: every transaction in the pending buffer and in every block of the
\* chain has an amount above zero.
C17_AmountsPositive ==
    \A k \in 1..Len(AllTransactions) : AllTransactions[k].amount > 0

\* Block i carries the hash of its own fields.
HashMatches(i) ==
    chain[i].hash = calculateHash(chain[i].index, chain[i].previousHash,
                                  Transactions(chain[i]), chain[i].timestamp,
                                  chain[i].nonce)

\* Block i carries the hash of the block before it.
LinkMatches(i) == chain[i].previousHash = chain[i - 1].hash

\* C18: isChainValid() is true exactly when every block after the first
\* carries the hash of its own fields and the hash of the block before it; the
\* first block's own hash is not re-computed, so after a caller changed the
\* first block's nonce the answer is still true.
C18_VerifyIffBlocksAfterGenesis ==
    /\ ChainValid <=> \A i \in 2..Len(chain) : HashMatches(i) /\ LinkMatches(i)
    /\ last.op = "callerSetGenesisNonce" => (~HashMatches(1) /\ ChainValid)

C18_Witness ==
    /\ last.op = "callerSetGenesisNonce"
    /\ Len(chain) = 3
    /\ Len(Transactions(chain[2])) >= 1
    /\ ~HashMatches(1)
    /\ ChainValid

C18_WitnessLinkBroken ==
    /\ last.op = "callerSetGenesisHash"
    /\ Len(chain) >= 2
    /\ HashMatches(2)
    /\ ~LinkMatches(2)
    /\ ~ChainValid

Names(x, tx) == SentFrom(x, tx) \/ SentTo(x, tx)

\* C19: for every identity X, getTransactionsForAddress(X) is the sequence of
\* the mined transactions whose sender or receiver is X, each once, in chain
\* order then in-block order; pending transactions are not in it.
C19_TransactionsForExact ==
    \A x \in Identities :
        TransactionsFor(x) = SelectSeq(Mined, LAMBDA tx : Names(x, tx))

C19_Witness ==
    /\ Len(Mined) = 2
    /\ Mined[1].fromAddress = DonorA /\ Mined[1].toAddress = DonorA
    /\ Mined[2].fromAddress = DonorA /\ Mined[2].toAddress = CharityB
    /\ TransactionsFor(DonorA) = Mined
    /\ TransactionsFor(CharityB) = <<Mined[2]>>

\* The identities that a mined transaction names.
Appearing == {x \in Identities : \E k \in 1..Len(Mined) : Names(x, Mined[k])}

RECURSIVE SumBalances(_)
SumBalances(S) ==
    IF S = {} THEN 0
    ELSE LET x == CHOOSE y \in S : TRUE
         IN  BalanceOf(x) + SumBalances(S \ {x})

\* C20: in every reachable state the balances of the identities that appear in
\* the chain add up to 0, and an addDonationTransaction step changes no
\* identity's balance.
C20_ValueConserved ==
    /\ [](SumBalances(Appearing) = 0)
    /\ [][(last' # last /\ last'.op = "addDonationTransaction") =>
              \A x \in Identities : BalanceOf(x)' = BalanceOf(x)]_vars

C20_Witness ==
    /\ last.op = "addDonationTransaction"
    /\ last.result.amount = 5
    /\ Appearing = {DonorA, CharityB}
    /\ BalanceOf(DonorA) = 0 - 5
    /\ BalanceOf(CharityB) = 5
    /\ Len(Pending) = 1

====
